---- MODULE Spec2Model ----
(***************************************************************************)
(* Model of scripts/extract_standards.py: the catalog loop over PDF_INFO,  *)
(* extract() with its row grouping, code recognition, grade resolution,    *)
(* surrogate-code fabrication and final per-grade sort.                    *)
(*                                                                         *)
(* A Python str is a sequence of one-character strings, so that regular    *)
(* expressions, startswith/in/split, formatting and string comparison are  *)
(* computed character by character as the program computes them.           *)
(* Positions are integers; a vertical position is counted in hundredths of *)
(* a unit (top = 1004 stands for 10.04).                                   *)
(***************************************************************************)
EXTENDS Integers, Sequences, FiniteSets, TLC

VARIABLES
    ci,           \* catalog loop: index into PDF_INFO of the entry at hand
    dpc,          \* "loop" | "extract" | "done" | "crashed"
    error,        \* the exception that ended the run ("" while none)
    stdout,       \* the lines printed so far
    files,        \* the output artifacts written so far: <<[path, content]>>
    subject_key,  \* extract(): its subject_key argument
    data,         \* extract(): data, <<[key, recs]>> in insertion order
    npages,       \* extract(): the pages of pdf.pages read so far
    rows,         \* extract(): the rows of the current page not yet visited
    row,          \* extract(): loop locals of the row visited last
    code_word,
    grade_label,
    grade_guess,
    descr,
    lookups       \* the last calls of col_to_grade: <<[x, grade]>>

vars == <<ci, dpc, error, stdout, files, subject_key, data, npages, rows,
          row, code_word, grade_guess, grade_label, descr, lookups>>

\* ------------------------------------------------------------------ strings

Upper == {"A","B","C","D","E","F","G","H","I","J","K","L","M",
          "N","O","P","Q","R","S","T","U","V","W","X","Y","Z"}

Lower == {"a","b","c","d","e","f","g","h","i","j","k","l","m",
          "n","o","p","q","r","s","t","u","v","w","x","y","z"}

Digit == {"0","1","2","3","4","5","6","7","8","9"}

Space == {" "}

\* the characters of the model, in code-point order
CHARS ==
    <<" ","-",".","0","1","2","3","4","5","6","7","8","9",":","?",
      "A","B","C","D","E","F","G","H","I","J","K","L","M",
      "N","O","P","Q","R","S","T","U","V","W","X","Y","Z","_",
      "a","b","c","d","e","f","g","h","i","j","k","l","m",
      "n","o","p","q","r","s","t","u","v","w","x","y","z">>

Ord == [c \in {CHARS[i] : i \in DOMAIN CHARS} |->
           CHOOSE i \in DOMAIN CHARS : CHARS[i] = c]

\* str < str: code-point lexicographic order, a proper prefix first
StrLess(a, b) ==
    \E i \in 1..(Len(a) + 1) :
        /\ i <= Len(b)
        /\ \A j \in 1..(i - 1) : a[j] = b[j]
        /\ \/ i = Len(a) + 1
           \/ i <= Len(a) /\ Ord[a[i]] < Ord[b[i]]

\* the first position from i on whose character is not in class (or the end)
SkipWhile(s, i, class) ==
    CHOOSE j \in i..(Len(s) + 1) :
        /\ j = Len(s) + 1 \/ s[j] \notin class
        /\ \A k \in i..(j - 1) : s[k] \in class

At(s, i, class) == i >= 1 /\ i <= Len(s) /\ s[i] \in class

LitAt(s, i, lit) ==
    /\ i + Len(lit) - 1 <= Len(s)
    /\ \A k \in 1..Len(lit) : s[i + k - 1] = lit[k]

\* needle in s
Contains(s, needle) == \E i \in 1..(Len(s) + 1) : LitAt(s, i, needle)

\* s.startswith(prefix)
StartsWith(s, prefix) == LitAt(s, 1, prefix)

\* s.split(sep)[n], for a one-character sep (n counted from 0)
RECURSIVE SplitField(_, _, _)
SplitField(s, sep, n) ==
    LET cut == SkipWhile(s, 1, {c \in DOMAIN Ord : c # sep})
    IN  IF n = 0 THEN SubSeq(s, 1, cut - 1)
        ELSE SplitField(SubSeq(s, cut + 1, Len(s)), sep, n - 1)

\* str.upper()
UpperOf(c) ==
    IF c \in Lower THEN CHARS[Ord[c] - Ord["a"] + Ord["A"]] ELSE c

ToUpper(s) == [i \in 1..Len(s) |-> UpperOf(s[i])]

\* str.strip()
Strip(s) ==
    LET first == SkipWhile(s, 1, Space)
        last  == CHOOSE j \in 0..Len(s) :
                     /\ j = 0 \/ s[j] \notin Space
                     /\ \A k \in (j + 1)..Len(s) : s[k] \in Space
    IN  SubSeq(s, first, last)

\* " ".join(parts)
RECURSIVE Join(_)
Join(parts) ==
    IF parts = <<>> THEN <<>>
    ELSE IF Len(parts) = 1 THEN parts[1]
    ELSE parts[1] \o <<" ">> \o Join(Tail(parts))

\* format(n, "d")
RECURSIVE Decimal(_)
Decimal(n) ==
    IF n < 10 THEN <<CHARS[Ord["0"] + n]>>
    ELSE Decimal(n \div 10) \o <<CHARS[Ord["0"] + (n % 10)]>>

\* format(n, "03d")
RECURSIVE ZeroPad(_, _)
ZeroPad(s, width) == IF Len(s) >= width THEN s ELSE ZeroPad(<<"0">> \o s, width)

Format03d(n) == ZeroPad(Decimal(n), 3)

\* --------------------------------------------------------------- CODE_RE

WordChar == Upper \cup Lower \cup Digit \cup {"_"}

\* [DMTVA]{2}:[A-Z][a-zA-Z]*\.\d+\.\w+
ArtsRe(s) ==
    LET j == SkipWhile(s, 5, Upper \cup Lower)
        k == SkipWhile(s, j + 1, Digit)
        m == SkipWhile(s, k + 1, WordChar)
    IN  /\ Len(s) >= 4
        /\ s[1] \in {"D","M","T","V","A"}
        /\ s[2] \in {"D","M","T","V","A"}
        /\ s[3] = ":"
        /\ s[4] \in Upper
        /\ At(s, j, {"."})
        /\ k > j + 1
        /\ At(s, k, {"."})
        /\ m > k + 1
        /\ m = Len(s) + 1

\* CDOS\s?\d(?:\.\d)?[a-z]?
CdosRe(s) ==
    LET i1 == IF At(s, 5, Space) THEN 6 ELSE 5
        i2 == i1 + 1
        i3 == IF At(s, i2, {"."}) /\ At(s, i2 + 1, Digit) THEN i2 + 2 ELSE i2
        i4 == IF At(s, i3, Lower) THEN i3 + 1 ELSE i3
    IN  /\ StartsWith(s, <<"C","D","O","S">>)
        /\ At(s, i1, Digit)
        /\ i4 = Len(s) + 1

\* NY-\d+[A-Z]?\.[A-Z]{1,4}\.[0-9A-Z]+
MathElaRe(s) ==
    LET i1 == SkipWhile(s, 4, Digit)
        i2 == IF At(s, i1, Upper) THEN i1 + 1 ELSE i1
        i3 == SkipWhile(s, i2 + 1, Upper)
        i4 == SkipWhile(s, i3 + 1, Digit \cup Upper)
    IN  /\ StartsWith(s, <<"N","Y","-">>)
        /\ i1 > 4
        /\ At(s, i2, {"."})
        /\ i3 - (i2 + 1) \in 1..4
        /\ At(s, i3, {"."})
        /\ i4 > i3 + 1
        /\ i4 = Len(s) + 1

\* NYSSLS-[0-9A-Z\-]+
ScienceRe(s) ==
    /\ StartsWith(s, <<"N","Y","S","S","L","S","-">>)
    /\ Len(s) > 7
    /\ SkipWhile(s, 8, Digit \cup Upper \cup {"-"}) = Len(s) + 1

\* SS\.[0-9A-Z\-]+
SocialRe(s) ==
    /\ StartsWith(s, <<"S","S",".">>)
    /\ Len(s) > 3
    /\ SkipWhile(s, 4, Digit \cup Upper \cup {"-"}) = Len(s) + 1

\* WL\.[A-Z]{2,4}\.\d+
WorldRe(s) ==
    LET i1 == SkipWhile(s, 4, Upper)
        i2 == SkipWhile(s, i1 + 1, Digit)
    IN  /\ StartsWith(s, <<"W","L",".">>)
        /\ i1 - 4 \in 2..4
        /\ At(s, i1, {"."})
        /\ i2 > i1 + 1
        /\ i2 = Len(s) + 1

\* CODE_RE.match(text): the whole text matches one of the alternatives
CODE_RE(s) ==
    \/ ArtsRe(s)
    \/ CdosRe(s)
    \/ MathElaRe(s)
    \/ ScienceRe(s)
    \/ SocialRe(s)
    \/ WorldRe(s)

\* ------------------------------------------------- column -> grade lookup

BREAKS == <<180, 270, 345, 415, 485, 555, 625, 695, 765, 835>>

GRADES ==
    <<  <<"G","r","a","d","e"," ","P","K">>,
        <<"G","r","a","d","e"," ","K">>,
        <<"G","r","a","d","e"," ","1">>,
        <<"G","r","a","d","e"," ","2">>,
        <<"G","r","a","d","e"," ","3">>,
        <<"G","r","a","d","e"," ","4">>,
        <<"G","r","a","d","e"," ","5">>,
        <<"G","r","a","d","e"," ","6">>,
        <<"G","r","a","d","e"," ","7">>,
        <<"G","r","a","d","e"," ","8">>,
        <<"H","S","I">>  >>

\* a plausible slip: a position equal to a breakpoint stays in the band to
\* its left
col_to_grade_le(x) ==
    LET hits == {idx \in DOMAIN BREAKS : x <= BREAKS[idx]}
    IN  IF hits = {} THEN GRADES[Len(GRADES)]
        ELSE GRADES[CHOOSE idx \in hits : \A o \in hits : idx <= o]

\* for idx, br in enumerate(BREAKS): if x < br: return GRADES[idx]
col_to_grade(x) ==
    LET hits == {idx \in DOMAIN BREAKS : x < BREAKS[idx]}
    IN  IF hits = {} THEN GRADES[Len(GRADES)]
        ELSE GRADES[CHOOSE idx \in hits : \A o \in hits : idx <= o]

\* ------------------------------------------------------------ infer_grade

\* re.search(lit + "(" + class + ")", code): where the leftmost match starts
\* (0 when there is none)
SearchAt(code, lit, class) ==
    LET hits == {i \in 1..Len(code) :
                    LitAt(code, i, lit) /\ At(code, i + Len(lit), class)}
    IN  IF hits = {} THEN 0
        ELSE CHOOSE i \in hits : \A o \in hits : i <= o

GradeOf(digits) == <<"G","r","a","d","e"," ">> \o digits

\* a plausible slip: the science rule tried for every subject
infer_grade_any_subject(key, code, fallback) ==
    LET s == SearchAt(code, <<"N","Y","S","S","L","S","-">>, Digit)
    IN  IF s > 0 THEN GradeOf(<<code[s + 7]>>) ELSE fallback

infer_grade(key, code, fallback) ==
    LET m == SearchAt(code, <<"N","Y","-">>, Digit)
        s == SearchAt(code, <<"N","Y","S","S","L","S","-">>, Digit)
        t == SearchAt(code, <<"S","S",".">>, Digit \ {"0"})
    IN  IF /\ key \in {<<"m","a","t","h","e","m","a","t","i","c","s">>,
                       <<"e","l","a">>}
           /\ m > 0
        THEN GradeOf(SubSeq(code, m + 3, SkipWhile(code, m + 3, Digit) - 1))
        ELSE IF key = <<"s","c","i","e","n","c","e">> /\ s > 0
        THEN GradeOf(<<code[s + 7]>>)
        ELSE IF /\ StartsWith(key,
                      <<"s","o","c","i","a","l","_","s","t","u","d","i","e","s">>)
                /\ t > 0
        THEN GradeOf(<<code[t + 3]>>)
        ELSE fallback

\* ------------------------------------------------------------ PDF_INFO

PDF_INFO ==
    <<
        [key |-> <<"d","a","n","c","e">>,
         fname |-> "dance_standards.pdf"],
        [key |-> <<"m","e","d","i","a","_","a","r","t","s">>,
         fname |-> "media_arts_standards.pdf"],
        [key |-> <<"m","u","s","i","c">>,
         fname |-> "music_standards.pdf"],
        [key |-> <<"t","h","e","a","t","r","e">>,
         fname |-> "theatre_standards.pdf"],
        [key |-> <<"v","i","s","u","a","l","_","a","r","t","s">>,
         fname |-> "visual_arts_standards.pdf"],
        [key |-> <<"c","d","o","s">>,
         fname |-> "cdos_standards.pdf"],
        [key |-> <<"m","a","t","h","e","m","a","t","i","c","s">>,
         fname |-> "mathematics_standards.pdf"],
        [key |-> <<"e","l","a">>,
         fname |-> "ela_standards.pdf"],
        [key |-> <<"s","c","i","e","n","c","e">>,
         fname |-> "science_standards.pdf"],
        [key |-> <<"s","o","c","i","a","l","_","s","t","u","d","i","e","s","_","k","8">>,
         fname |-> "social_studies_k8_standards.pdf"],
        [key |-> <<"s","o","c","i","a","l","_","s","t","u","d","i","e","s","_","h","s">>,
         fname |-> "social_studies_hs_standards.pdf"],
        [key |-> <<"c","o","m","p","u","t","e","r","_","s","c","i","e","n","c","e">>,
         fname |-> "computer_science_standards.pdf"],
        [key |-> <<"w","o","r","l","d","_","l","a","n","g","u","a","g","e","s">>,
         fname |-> "world_languages_standards.pdf"],
        [key |-> <<"h","e","a","l","t","h","_","p","e","_","f","c","s">>,
         fname |-> "health_pe_fcs_standards.pdf"],
        [key |-> <<"p","h","y","s","i","c","a","l","_","e","d","u","c","a","t","i","o","n">>,
         fname |-> "physical_education_standards.pdf"],
        [key |-> <<"t","e","c","h","n","o","l","o","g","y">>,
         fname |-> "technology_standards.pdf"],
        [key |-> <<"e","n","g","_","e","n","g","l","i","s","h","_","p","r","i","m","a","r","y">>,
         fname |-> "eng_english_primary.pdf"],
        [key |-> <<"e","n","g","_","e","n","g","l","i","s","h","_","s","e","c","o","n","d","a","r","y">>,
         fname |-> "eng_english_secondary.pdf"],
        [key |-> <<"e","n","g","_","e","n","g","l","i","s","h","_","k","s","4">>,
         fname |-> "eng_english_ks4.pdf"],
        [key |-> <<"e","n","g","_","r","e","a","d","i","n","g","_","f","r","a","m","e","w","o","r","k">>,
         fname |-> "reading_framework.pdf"],
        [key |-> <<"e","n","g","_","l","e","t","t","e","r","s","_","s","o","u","n","d","s">>,
         fname |-> "letters_and_sounds.pdf"],
        [key |-> <<"e","n","g","_","g","c","s","e","_","e","n","g","l","i","s","h","_","a","q","a">>,
         fname |-> "aqa_gcse_eng_lang_spec.pdf"],
        [key |-> <<"e","n","g","_","m","a","t","h","e","m","a","t","i","c","s","_","p","r","i","m","a","r","y">>,
         fname |-> "eng_mathematics_primary.pdf"],
        [key |-> <<"e","n","g","_","m","a","t","h","e","m","a","t","i","c","s","_","s","e","c","o","n","d","a","r","y">>,
         fname |-> "eng_mathematics_secondary.pdf"],
        [key |-> <<"e","n","g","_","m","a","t","h","e","m","a","t","i","c","s","_","k","s","4">>,
         fname |-> "eng_mathematics_ks4.pdf"],
        [key |-> <<"e","n","g","_","m","a","t","h","e","m","a","t","i","c","s","_","a","p","p","e","n","d","i","x","1">>,
         fname |-> "eng_mathematics_appendix1.pdf"],
        [key |-> <<"e","n","g","_","s","c","i","e","n","c","e","_","p","r","i","m","a","r","y">>,
         fname |-> "eng_science_primary.pdf"],
        [key |-> <<"e","n","g","_","s","c","i","e","n","c","e","_","s","e","c","o","n","d","a","r","y">>,
         fname |-> "eng_science_secondary.pdf"],
        [key |-> <<"e","n","g","_","s","c","i","e","n","c","e","_","k","s","4">>,
         fname |-> "eng_science_ks4.pdf"],
        [key |-> <<"e","n","g","_","g","e","o","g","r","a","p","h","y","_","p","r","i","m","a","r","y">>,
         fname |-> "eng_geography_primary.pdf"],
        [key |-> <<"e","n","g","_","g","e","o","g","r","a","p","h","y","_","s","e","c","o","n","d","a","r","y">>,
         fname |-> "eng_geography_secondary.pdf"],
        [key |-> <<"e","n","g","_","h","i","s","t","o","r","y","_","p","r","i","m","a","r","y">>,
         fname |-> "eng_history_primary.pdf"],
        [key |-> <<"e","n","g","_","h","i","s","t","o","r","y","_","s","e","c","o","n","d","a","r","y">>,
         fname |-> "eng_history_secondary.pdf"],
        [key |-> <<"e","n","g","_","a","r","t","_","d","e","s","i","g","n","_","p","r","i","m","a","r","y">>,
         fname |-> "eng_art_design_primary.pdf"],
        [key |-> <<"e","n","g","_","a","r","t","_","d","e","s","i","g","n","_","s","e","c","o","n","d","a","r","y">>,
         fname |-> "eng_art_design_secondary.pdf"],
        [key |-> <<"e","n","g","_","m","u","s","i","c","_","p","r","i","m","a","r","y">>,
         fname |-> "eng_music_primary.pdf"],
        [key |-> <<"e","n","g","_","m","u","s","i","c","_","s","e","c","o","n","d","a","r","y">>,
         fname |-> "eng_music_secondary.pdf"],
        [key |-> <<"e","n","g","_","p","e","_","p","r","i","m","a","r","y">>,
         fname |-> "eng_pe_primary.pdf"],
        [key |-> <<"e","n","g","_","p","e","_","s","e","c","o","n","d","a","r","y">>,
         fname |-> "eng_pe_secondary.pdf"],
        [key |-> <<"e","n","g","_","d","e","s","i","g","n","_","t","e","c","h","n","o","l","o","g","y","_","p","r","i","m","a","r","y">>,
         fname |-> "eng_design_technology_primary.pdf"],
        [key |-> <<"e","n","g","_","d","e","s","i","g","n","_","t","e","c","h","n","o","l","o","g","y","_","s","e","c","o","n","d","a","r","y">>,
         fname |-> "eng_design_technology_secondary.pdf"],
        [key |-> <<"e","n","g","_","c","o","m","p","u","t","i","n","g","_","p","r","i","m","a","r","y">>,
         fname |-> "eng_computing_primary.pdf"],
        [key |-> <<"e","n","g","_","c","o","m","p","u","t","i","n","g","_","s","e","c","o","n","d","a","r","y">>,
         fname |-> "eng_computing_secondary.pdf"],
        [key |-> <<"e","n","g","_","m","f","l","_","p","r","i","m","a","r","y">>,
         fname |-> "eng_mfl_primary.pdf"],
        [key |-> <<"e","n","g","_","m","f","l","_","s","e","c","o","n","d","a","r","y">>,
         fname |-> "eng_mfl_secondary.pdf"],
        [key |-> <<"e","n","g","_","c","i","t","i","z","e","n","s","h","i","p">>,
         fname |-> "eng_citizenship_secondary.pdf"]
    >>

\* ------------------------------------------------------------ extract()

\* code_word = None
None == [none |-> TRUE]

\* round(top, 1), top in hundredths (the tops of the model end in no 5, so
\* that no tie is rounded)
Round1(top) == (top + 5) \div 10

\* sorted(words, key=top): a stable insertion of w after every word whose top
\* is not greater
RECURSIVE InsertByTop(_, _)
InsertByTop(sorted, w) ==
    IF sorted = <<>> THEN <<w>>
    ELSE IF w.top < sorted[Len(sorted)].top
    THEN Append(InsertByTop(SubSeq(sorted, 1, Len(sorted) - 1), w),
                sorted[Len(sorted)])
    ELSE Append(sorted, w)

RECURSIVE SortedByTop(_)
SortedByTop(words) ==
    IF words = <<>> THEN <<>>
    ELSE InsertByTop(SortedByTop(SubSeq(words, 1, Len(words) - 1)),
                     words[Len(words)])

\* itertools.groupby(words, key=round(top, 1)): the runs of consecutive words
\* with equal keys
RECURSIVE GroupBy(_)
GroupBy(words) ==
    IF words = <<>> THEN <<>>
    ELSE LET k   == Round1(words[1].top)
             cut == CHOOSE j \in 2..(Len(words) + 1) :
                        /\ j = Len(words) + 1 \/ Round1(words[j].top) # k
                        /\ \A i \in 2..(j - 1) : Round1(words[i].top) = k
         IN  <<SubSeq(words, 1, cut - 1)>>
                 \o GroupBy(SubSeq(words, cut, Len(words)))

\* the rows of a page (lines 117-120)
RowsOf(words) == GroupBy(SortedByTop(words))

\* next((w for w in row if CODE_RE.match(w["text"])), None)
FirstCode(r) ==
    LET hits == {i \in DOMAIN r : CODE_RE(r[i].text)}
    IN  IF hits = {} THEN None
        ELSE r[CHOOSE i \in hits : \A o \in hits : i <= o]

\* the Key Stage label from the subject key (lines 128-135)
KeyStage(key) ==
    IF Contains(key, <<"_","p","r","i","m","a","r","y">>)
    THEN <<"K","S","1","-","2">>
    ELSE IF Contains(key, <<"_","s","e","c","o","n","d","a","r","y">>)
    THEN <<"K","S","3">>
    ELSE IF \/ Contains(key, <<"_","k","s","4">>)
            \/ Contains(key, <<"_","g","c","s","e">>)
    THEN <<"K","S","4">>
    ELSE <<"K","S","?">>

\* subject_key.split("_")[1][:2].upper()
SubjTag(key) ==
    LET seg == SplitField(key, "_", 1)
    IN  ToUpper(SubSeq(seg, 1, IF Len(seg) < 2 THEN Len(seg) ELSE 2))

\* data.get(k, [])
DictGet(d, k) ==
    LET hits == {i \in DOMAIN d : d[i].key = k}
    IN  IF hits = {} THEN <<>> ELSE d[CHOOSE i \in hits : TRUE].recs

\* data.setdefault(k, []).append(rec)
DictAppend(d, k, rec) ==
    IF \E i \in DOMAIN d : d[i].key = k
    THEN [i \in DOMAIN d |->
             IF d[i].key = k
             THEN [key |-> k, recs |-> Append(d[i].recs, rec)]
             ELSE d[i]]
    ELSE Append(d, [key |-> k, recs |-> <<rec>>])

\* a plausible slip: the counter counts every record of the document
RECURSIVE TotalRecs(_)
TotalRecs(d) ==
    IF d = <<>> THEN 0 ELSE Len(d[1].recs) + TotalRecs(Tail(d))

NextCounterAllBands(d, ks) == TotalRecs(d) + 1

\* counter = len(data.get(ks, [])) + 1
NextCounter(d, ks) == Len(DictGet(d, ks)) + 1

\* fake_code = f"{ks}-{subj_tag}-{counter:03d}"
FakeCode(key, d) ==
    LET ks == KeyStage(key)
    IN  ks \o <<"-">> \o SubjTag(key) \o <<"-">> \o Format03d(NextCounter(d, ks))

\* a plausible slip: ">=" for ">"
RightOfCodeGe(w, cw) == w.x0 >= cw.x1

\* w["x0"] > code_word["x1"]
RightOfCode(w, cw) == w.x0 > cw.x1

\* " ".join(w["text"] for w in row if w["x0"] > code_word["x1"]).strip()
Description(r, cw) ==
    LET keep == SelectSeq(r, LAMBDA w : RightOfCode(w, cw))
    IN  Strip(Join([i \in DOMAIN keep |-> keep[i].text]))

\* a plausible slip: no sort at all
SortedByCodeNoSort(recs) == recs

\* list.sort(key=code): stable
RECURSIVE SortedByCode(_)
SortedByCode(recs) ==
    IF recs = <<>> THEN <<>>
    ELSE LET init == SortedByCode(SubSeq(recs, 1, Len(recs) - 1))
             r    == recs[Len(recs)]
             n    == Cardinality({i \in DOMAIN init :
                                     ~StrLess(r.code, init[i].code)})
         IN  SubSeq(init, 1, n) \o <<r>> \o SubSeq(init, n + 1, Len(init))

\* for g in data: data[g].sort(key=lambda d: d["code"])
SortAll(d) ==
    [i \in DOMAIN d |-> [key |-> d[i].key, recs |-> SortedByCode(d[i].recs)]]

\* ------------------------------------------------------- the catalog loop

Entry == PDF_INFO[ci]

IsEng(key) == StartsWith(key, <<"e","n","g","_">>)

\* out_dir / f"{key}_standards.json"
OutFile(key) ==
    [dir  |-> IF IsEng(key) THEN "public/standards/england"
              ELSE "public/standards/nys",
     name |-> key \o <<"_","s","t","a","n","d","a","r","d","s",
                       ".","j","s","o","n">>]

Init ==
    /\ ci = 1
    /\ dpc = "loop"
    /\ error = ""
    /\ stdout = <<>>
    /\ files = <<>>
    /\ subject_key = <<>>
    /\ data = <<>>
    /\ npages = 0
    /\ rows = <<>>
    /\ row = <<>>
    /\ code_word = None
    /\ grade_guess = <<>>
    /\ grade_label = <<>>
    /\ descr = <<>>
    /\ lookups = <<>>

extractLocals == <<subject_key, data, npages, rows, row, code_word,
                   grade_guess, grade_label, descr>>

\* lines 169-173: the source document does not exist
SkipMissing ==
    /\ dpc = "loop"
    /\ ci <= Len(PDF_INFO)
    /\ stdout' = Append(stdout, [msg |-> "not found - skipping",
                                 arg |-> Entry.fname])
    /\ ci' = ci + 1
    /\ UNCHANGED <<dpc, error, files, extractLocals, lookups>>

\* lines 175-180 and 113-115: the document exists; extract() is entered and
\* opens it, which fails on an unreadable document
OpenDocument(present, faults) ==
    /\ dpc = "loop"
    /\ ci <= Len(PDF_INFO)
    /\ Entry.key \in present
    /\ stdout' = Append(stdout, [msg |-> "Extracting", arg |-> Entry.fname])
    /\ \E fault \in {"none"} \cup (faults \cap {"open"}) :
          IF fault = "open"
          THEN /\ dpc' = "crashed"
               /\ error' = "PDFSyntaxError"
               /\ UNCHANGED extractLocals
          ELSE /\ dpc' = "extract"
               /\ subject_key' = Entry.key
               /\ data' = <<>>
               /\ npages' = 0
               /\ rows' = <<>>
               /\ UNCHANGED <<error, row, code_word, grade_guess,
                              grade_label, descr>>
    /\ UNCHANGED <<ci, files, lookups>>

\* the sequences of at most n distinct words of pool
RECURSIVE Arrangements(_, _)
Arrangements(pool, n) ==
    IF n = 0 THEN {<<>>}
    ELSE LET shorter == Arrangements(pool, n - 1)
         IN  shorter \cup
             {Append(s, w) : s \in {t \in shorter : Len(t) = n - 1},
                             w \in pool}

NoRepeat(s) == \A i, j \in DOMAIN s : i # j => s[i] # s[j]

\* lines 116-120: the next page is read; its words come in any order
NextPage(pool, maxTokens, maxPages) ==
    /\ dpc = "extract"
    /\ rows = <<>>
    /\ npages < maxPages
    /\ \E words \in {s \in Arrangements(pool, maxTokens) : NoRepeat(s)} :
          rows' = RowsOf(words)
    /\ npages' = npages + 1
    /\ UNCHANGED <<ci, dpc, error, stdout, files, subject_key, data, row,
                   code_word, grade_guess, grade_label, descr, lookups>>

\* lines 121-159: one row of the page
ProcessRow ==
    /\ dpc = "extract"
    /\ rows # <<>>
    /\ LET r  == Head(rows)
           cw == FirstCode(r)
       IN  /\ row' = r
           /\ IF cw = None /\ IsEng(subject_key)
              THEN \* lines 126-140
                   LET ks   == KeyStage(subject_key)
                       fake == [x0 |-> 0, x1 |-> 0,
                                text |-> FakeCode(subject_key, data)]
                   IN  /\ code_word' = fake
                       /\ grade_label' = ks
                       /\ descr' = Description(r, fake)
                       /\ data' = DictAppend(data, ks,
                                     [code |-> fake.text,
                                      description |-> Description(r, fake)])
                       /\ rows' = Tail(rows)
                       /\ UNCHANGED <<grade_guess, dpc, error>>
              ELSE IF cw = None
              THEN \* lines 143-147: code_word["x0"], code_word["text"] of None
                   /\ code_word' = None
                   /\ dpc' = "crashed"
                   /\ error' = "TypeError"
                   /\ UNCHANGED <<grade_guess, grade_label, descr, data, rows>>
              ELSE \* lines 142-159
                   LET guess == IF subject_key = <<"c","d","o","s">>
                                THEN <<"K","-","1","2">>
                                ELSE col_to_grade(cw.x0)
                       label == infer_grade(subject_key, cw.text, guess)
                   IN  /\ code_word' = cw
                       /\ grade_guess' = guess
                       /\ grade_label' = label
                       /\ descr' = Description(r, cw)
                       /\ data' = DictAppend(data, label,
                                     [code |-> cw.text,
                                      description |-> Description(r, cw)])
                       /\ rows' = Tail(rows)
                       /\ UNCHANGED <<dpc, error>>
    /\ UNCHANGED <<ci, stdout, files, subject_key, npages, lookups>>

\* lines 161-164 and 181-183: the pages are exhausted; every group is sorted,
\* extract() returns, the artifact is written, and the report of the written
\* file raises: Path.relative_to() of a relative path against the absolute
\* Path.cwd() is a ValueError
EndOfDocument(faults) ==
    /\ dpc = "extract"
    /\ rows = <<>>
    /\ data' = SortAll(data)
    /\ \E fault \in {"none"} \cup (faults \cap {"write"}) :
          IF fault = "write"
          THEN /\ error' = "OSError"
               /\ UNCHANGED files
          ELSE /\ error' = "ValueError"
               /\ files' = [p \in DOMAIN files \cup {OutFile(subject_key)} |->
                               IF p = OutFile(subject_key) THEN SortAll(data)
                               ELSE files[p]]
    /\ dpc' = "crashed"
    /\ UNCHANGED <<ci, stdout, subject_key, npages, rows, row, code_word,
                   grade_guess, grade_label, descr, lookups>>

\* line 185: the catalog is exhausted
AllDone ==
    /\ dpc = "loop"
    /\ ci = Len(PDF_INFO) + 1
    /\ stdout' = Append(stdout, [msg |-> "All done", arg |-> ""])
    /\ dpc' = "done"
    /\ UNCHANGED <<ci, error, files, extractLocals, lookups>>

\* --------------------------------------------------- the environment

Word(text, x0, x1, top) == [text |-> text, x0 |-> x0, x1 |-> x1, top |-> top]

\* the words of a page and the pages of a document, at most (Spec)
MaxTokens == 3

MaxPages == 2

\* the same for the one-row pages of SpecRow
RowMaxTokens == 3

RowMaxPages == 1

\* how far from a breakpoint the positions of SpecGrade lie, at most
Delta == 1

\* the failures of the environment: the document cannot be opened, the
\* artifact cannot be written
Faults == {"open", "write"}

\* the subjects whose source document may exist
Present ==
    {<<"d","a","n","c","e">>,
     <<"c","d","o","s">>,
     <<"m","a","t","h","e","m","a","t","i","c","s">>,
     <<"e","l","a">>,
     <<"s","c","i","e","n","c","e">>,
     <<"s","o","c","i","a","l","_","s","t","u","d","i","e","s","_","k","8">>,
     <<"e","n","g","_","e","n","g","l","i","s","h","_","p","r","i","m","a","r","y">>,
     <<"e","n","g","_","g","c","s","e","_","e","n","g","l","i","s","h","_","a","q","a">>}

\* the words that may stand on a page of the document of a subject
DocWords(key) ==
    CASE key = <<"d","a","n","c","e">> ->
            {Word(<<"D","A",":","C","r",".","1",".","1">>, 50, 100, 1000),
             Word(<<"m","o","v","e">>, 200, 240, 1000),
             Word(<<"D","A",":","P","r",".","4",".","1">>, 180, 230, 1010)}
      [] key = <<"c","d","o","s">> ->
            {Word(<<"C","D","O","S"," ","2">>, 50, 100, 1000),
             Word(<<"C","D","O","S"," ","1">>, 50, 100, 1010),
             Word(<<"p","l","a","n">>, 200, 240, 1010),
             Word(<<"C","D","O","S"," ","1">>, 50, 100, 1020)}
      [] key = <<"m","a","t","h","e","m","a","t","i","c","s">> ->
            {Word(<<"N","Y","-","3",".","O","A",".","1">>, 700, 760, 1000),
             Word(<<"N","Y","-","1","0",".","G",".","2">>, 50, 100, 1010),
             Word(<<"S","S",".","K">>, 345, 380, 1020)}
      [] key = <<"e","l","a">> ->
            {Word(<<"N","Y","-","3",".","W",".","2">>, 700, 760, 1000),
             Word(<<"w","r","i","t","e">>, 800, 840, 1000),
             Word(<<"N","Y","-","1","1","A",".","R",".","1">>, 50, 100, 1010)}
      [] key = <<"s","c","i","e","n","c","e">> ->
            {Word(<<"N","Y","S","S","L","S","-","3","-","L","S","1">>, 50, 100, 1000),
             Word(<<"N","Y","S","S","L","S","-","K">>, 50, 100, 1010),
             Word(<<"c","e","l","l","s">>, 200, 240, 1010),
             Word(<<"N","Y","S","S","L","S","-","1","2">>, 415, 460, 1020)}
      [] key = <<"s","o","c","i","a","l","_","s","t","u","d","i","e","s","_","k","8">> ->
            {Word(<<"S","S",".","7","A">>, 50, 100, 1000),
             Word(<<"S","S",".","K">>, 900, 940, 1010),
             Word(<<"S","S",".","0">>, 200, 240, 1020)}
      [] key = <<"e","n","g","_","e","n","g","l","i","s","h","_","p","r","i","m","a","r","y">> ->
            {Word(<<"r","e","a","d">>, 50, 100, 1000),
             Word(<<"s","p","e","l","l">>, 50, 100, 1010),
             Word(<<"S","S",".","7","A">>, 50, 100, 1020),
             Word(<<"a","l","o","u","d">>, 200, 240, 1000)}
      [] key = <<"e","n","g","_","g","c","s","e","_","e","n","g","l","i","s","h","_","a","q","a">> ->
            {Word(<<"e","s","s","a","y">>, 50, 100, 1000),
             Word(<<"p","o","e","m">>, 200, 240, 1000),
             Word(<<"p","r","o","s","e">>, 50, 100, 1010)}
      [] OTHER -> {}

\* one Arts table row in every geometry: words left of the code, across and
\* at its right edge, right of it, with tops that round to the same value
RowWords ==
    {Word(<<"D","A",":","C","r",".","1",".","1">>, 50, 100, 1000),
     Word(<<"l","e","f","t">>, 10, 40, 1000),
     Word(<<"o","v","e","r">>, 90, 150, 1000),
     Word(<<"e","d","g","e">>, 100, 160, 1000),
     Word(<<"f","a","r">>, 300, 350, 1001),
     Word(<<"n","e","a","r">>, 200, 250, 1004),
     Word(<<"l","a","s","t">>, 400, 450, 1001)}

\* the positions looked up: around every breakpoint, and the page's ends
Positions ==
    {b + d : b \in {BREAKS[i] : i \in DOMAIN BREAKS} \cup {1, 50, 900},
             d \in (0 - Delta)..Delta}

\* a call of col_to_grade; the last two calls are kept
LookUp ==
    /\ dpc = "loop"
    /\ ci = 1
    /\ \E x \in Positions :
          lookups' = (IF lookups = <<>> THEN <<>>
                      ELSE <<lookups[Len(lookups)]>>)
                         \o <<[x |-> x, grade |-> col_to_grade(x)]>>
    /\ UNCHANGED <<ci, dpc, error, stdout, files, extractLocals>>

Next ==
    \/ SkipMissing
    \/ OpenDocument(Present, Faults)
    \/ NextPage(DocWords(subject_key), MaxTokens, MaxPages)
    \/ ProcessRow
    \/ EndOfDocument(Faults)
    \/ AllDone

Spec == Init /\ [][Next]_vars

NextRow ==
    \/ SkipMissing
    \/ OpenDocument({<<"d","a","n","c","e">>}, Faults)
    \/ NextPage(RowWords, RowMaxTokens, RowMaxPages)
    \/ ProcessRow
    \/ EndOfDocument(Faults)
    \/ AllDone

SpecRow == Init /\ [][NextRow]_vars

SpecGrade == Init /\ [][LookUp]_vars

\* ------------------------------------------------------------- properties

\* the row visited last had a token matching the code pattern, which is
\* code_word
CodedRowDone ==
    /\ row # <<>>
    /\ code_word # None
    /\ \E i \in DOMAIN row : row[i] = code_word
    /\ CODE_RE(code_word.text)

\* str.split(" ")
RECURSIVE SplitWords(_)
SplitWords(s) ==
    IF s = <<>> THEN <<>>
    ELSE LET blanks == {i \in DOMAIN s : s[i] = " "}
             cut    == IF blanks = {} THEN Len(s) + 1
                       ELSE CHOOSE i \in blanks : \A o \in blanks : i <= o
         IN  <<SubSeq(s, 1, cut - 1)>>
                 \o (IF cut >= Len(s) THEN <<>>
                     ELSE SplitWords(SubSeq(s, cut + 1, Len(s))))

\* the value of a string of decimal digits
RECURSIVE ParseDecimal(_)
ParseDecimal(s) ==
    IF s = <<>> THEN 0
    ELSE 10 * ParseDecimal(SubSeq(s, 1, Len(s) - 1))
             + (Ord[s[Len(s)]] - Ord["0"])

\* the digits after the last "-" of a surrogate code, and their value
SuffixDigits(code) ==
    LET dashes == {i \in DOMAIN code : code[i] = "-"}
        last   == CHOOSE i \in dashes : \A o \in dashes : o <= i
    IN  SubSeq(code, last + 1, Len(code))

SuffixNumber(code) == ParseDecimal(SuffixDigits(code))

\* the records of a group that carry a fabricated code: no fabricated code
\* matches the code pattern, every code taken from a token does
Surrogates(recs) == SelectSeq(recs, LAMBDA r : ~CODE_RE(r.code))

\* C1: in a document of a subject that is not uncoded, visiting a row in which
\* no token matches the code pattern adds no record, raises no error and
\* leaves the remaining rows to be visited.
C1_NoCodeRowDropped ==
    [][(/\ dpc = "extract"
        /\ rows # <<>>
        /\ ~IsEng(subject_key)
        /\ \A i \in DOMAIN Head(rows) : ~CODE_RE(Head(rows)[i].text)
        /\ row' = Head(rows))
       => (/\ data' = data
           /\ error' = ""
           /\ dpc' = "extract"
           /\ rows' = Tail(rows))]_vars

\* C2: in a document of an uncoded subject, in every group the fabricated
\* codes carry, in the order the rows were visited, the suffixes 1, 2, 3, ...
\* with three digits at least, and no two records of a group share a
\* fabricated code, whatever coded rows were visited in between.
C2_SurrogateSuffixesDense ==
    IsEng(subject_key) =>
        \A g \in DOMAIN data :
            LET s == Surrogates(data[g].recs)
            IN  /\ \A i \in DOMAIN s :
                      /\ SuffixNumber(s[i].code) = i
                      /\ Len(SuffixDigits(s[i].code)) >= 3
                      /\ i = 1 => SuffixDigits(s[i].code) = <<"0","0","1">>
                /\ \A i, j \in DOMAIN s : i # j => s[i].code # s[j].code

\* C2 witness: an uncoded document with a coded row, whose second code-free
\* row was visited last.
C2_Witness ==
    /\ IsEng(subject_key)
    /\ \E g, h \in DOMAIN data :
          /\ Len(Surrogates(data[g].recs)) >= 2
          /\ g # h
          /\ Len(data[h].recs) >= 1
          /\ \E i \in DOMAIN data[h].recs : CODE_RE(data[h].recs[i].code)
    /\ row # <<>>
    /\ \A i \in DOMAIN row : ~CODE_RE(row[i].text)
    /\ SuffixNumber(code_word.text) = 2

\* C3: after a row with a recognized code c, the description holds the text
\* of exactly the row's tokens whose left edge is right of c's right edge:
\* not c itself, no token ending at or before c's right edge, none across
\* it; it is empty when no token lies right of c.
C3_DescriptionRightOfCode ==
    CodedRowDone =>
        LET c     == code_word
            words == SplitWords(descr)
            right == {i \in DOMAIN row : row[i].x0 > c.x1}
            said  == {words[k] : k \in DOMAIN words}
        IN  /\ said = {row[i].text : i \in right}
            /\ Len(words) = Cardinality(right)
            /\ c.text \notin said
            /\ \A i \in DOMAIN row :
                  (\/ row[i].x1 <= c.x1
                   \/ row[i].x0 <= c.x1 /\ c.x1 < row[i].x1)
                      => row[i].text \notin said
            /\ right = {} => descr = <<>>

\* C3 witness: a row with the code, a token starting at the code's right
\* edge and a token right of it.
C3_Witness ==
    /\ CodedRowDone
    /\ \E i \in DOMAIN row : row[i].x0 = code_word.x1
    /\ \E i \in DOMAIN row : row[i].x0 > code_word.x1
    /\ Len(SplitWords(descr)) = 1

\* the left edge of the row's token with this text (the texts of a row of the
\* model are distinct)
LeftEdgeOf(text) == (CHOOSE w \in {row[i] : i \in DOMAIN row} : w.text = text).x0

\* C4: after a row with a recognized code, the tokens of the description
\* stand in left-to-right order.
C4_DescriptionLeftToRight ==
    CodedRowDone =>
        LET words == SplitWords(descr)
        IN  \A i, j \in DOMAIN words :
                i < j => LeftEdgeOf(words[i]) <= LeftEdgeOf(words[j])

\* where lit followed by a character of class first stands in code (0: nowhere)
FirstHit(code, lit, class) ==
    IF \E i \in DOMAIN code : LitAt(code, i, lit) /\ At(code, i + Len(lit), class)
    THEN CHOOSE i \in DOMAIN code :
             /\ LitAt(code, i, lit) /\ At(code, i + Len(lit), class)
             /\ \A j \in 1..(i - 1) :
                   ~(LitAt(code, j, lit) /\ At(code, j + Len(lit), class))
    ELSE 0

\* the digits of code from position i on
RECURSIVE DigitRun(_, _)
DigitRun(code, i) ==
    IF i <= Len(code) /\ code[i] \in Digit
    THEN <<code[i]>> \o DigitRun(code, i + 1)
    ELSE <<>>

\* the grade embedded in a code for a subject (<<>>: none)
EmbeddedGrade(key, code) ==
    LET ny  == FirstHit(code, <<"N","Y","-">>, Digit)
        sls == FirstHit(code, <<"N","Y","S","S","L","S","-">>, Digit)
        ss  == FirstHit(code, <<"S","S",".">>,
                        {"1","2","3","4","5","6","7","8","9"})
    IN  CASE (key = <<"m","a","t","h","e","m","a","t","i","c","s">>
                 \/ key = <<"e","l","a">>) /\ ny > 0
                 -> DigitRun(code, ny + 3)
          [] key = <<"s","c","i","e","n","c","e">> /\ sls > 0
                 -> <<code[sls + 7]>>
          [] Len(key) >= 14
               /\ SubSeq(key, 1, 14)
                      = <<"s","o","c","i","a","l","_","s","t","u","d","i","e","s">>
               /\ ss > 0
                 -> <<code[ss + 3]>>
          [] OTHER -> <<>>

\* the band of a position: one more than the number of breakpoints at or
\* left of it
BandOf(x) == 1 + Cardinality({i \in DOMAIN BREAKS : BREAKS[i] <= x})

\* the reference of C5
ReferenceGrade(key, cw) ==
    IF EmbeddedGrade(key, cw.text) # <<>>
    THEN <<"G","r","a","d","e"," ">> \o EmbeddedGrade(key, cw.text)
    ELSE IF key = <<"c","d","o","s">> THEN <<"K","-","1","2">>
    ELSE GRADES[BandOf(cw.x0)]

\* C5: a row with a recognized code is filed under the embedded grade of the
\* code for mathematics, ela, science and social_studies subjects, and else
\* under the fallback: "K-12" for cdos, the band of the code token's left
\* edge for every other subject; every record of a cdos document is filed
\* under "K-12".
C5_GradeLabelReference ==
    /\ CodedRowDone =>
          /\ grade_label = ReferenceGrade(subject_key, code_word)
          /\ \E g \in DOMAIN data :
                /\ data[g].key = grade_label
                /\ \E i \in DOMAIN data[g].recs :
                      data[g].recs[i] = [code |-> code_word.text,
                                         description |-> descr]
    /\ subject_key = <<"c","d","o","s">> =>
          \A g \in DOMAIN data : data[g].key = <<"K","-","1","2">>

\* C5 witness: an ela code with embedded grade 3 in the column of grade 7.
C5_Witness ==
    /\ CodedRowDone
    /\ subject_key = <<"e","l","a">>
    /\ code_word.text = <<"N","Y","-","3",".","W",".","2">>
    /\ GRADES[BandOf(code_word.x0)] = <<"G","r","a","d","e"," ","7">>
    /\ grade_label = <<"G","r","a","d","e"," ","3">>

\* out holds the records of in sorted by code, those of equal code in the
\* order of in
StableSortOf(out, in) ==
    /\ Len(out) = Len(in)
    /\ \A i, j \in DOMAIN out : i < j => ~StrLess(out[j].code, out[i].code)
    /\ \A c \in {in[i].code : i \in DOMAIN in} \cup {out[i].code : i \in DOMAIN out} :
          SelectSeq(out, LAMBDA r : r.code = c)
              = SelectSeq(in, LAMBDA r : r.code = c)

\* extract() returns in this step
ExtractReturns == dpc = "extract" /\ dpc' = "crashed" /\ error' # "TypeError"

\* C6: when extract returns, every group holds the records accumulated for
\* its key, sorted non-decreasing by code under code-point string comparison,
\* none dropped, merged or added, those of equal code in encounter order; the
\* written artifact is this mapping.
C6_GroupsStablySorted ==
    [][ExtractReturns =>
           /\ Len(data') = Len(data)
           /\ \A g \in DOMAIN data :
                 /\ data'[g].key = data[g].key
                 /\ StableSortOf(data'[g].recs, data[g].recs)
           /\ error' = "ValueError" => files'[OutFile(subject_key)] = data']_vars

\* C6 witness: a written group of three records that the sort had to
\* reorder, two of them with the same code and different descriptions.
C6_Witness ==
    /\ error = "ValueError"
    /\ \E g \in DOMAIN data :
          LET recs == data[g].recs
          IN  /\ Len(recs) = 3
              /\ recs[1].code = recs[2].code
              /\ recs[1].description # recs[2].description
              /\ StrLess(recs[2].code, recs[3].code)
              /\ recs[1].description # <<>>
              /\ recs[3].description = <<>>
    /\ OutFile(subject_key) \in DOMAIN files
    /\ npages = 2

\* a diagnostic names a missing file
MetMissing == \E i \in DOMAIN stdout : stdout[i].msg = "not found - skipping"

\* the catalog entries passed whose document was not opened
Skipped ==
    {i \in 1..(ci - 1) :
        \A n \in DOMAIN stdout :
            ~(stdout[n].msg = "Extracting" /\ stdout[n].arg = PDF_INFO[i].fname)}

\* C7: when the driver has met missing source documents and the environment
\* fails in no other way, the run ends with a diagnostic naming each missing
\* file, no artifact of a missing subject, and every catalog entry visited.
C7_MissingSourceIsolated ==
    (/\ dpc \in {"done", "crashed"}
     /\ error \notin {"PDFSyntaxError", "OSError"}
     /\ MetMissing)
        => /\ \A i \in Skipped :
                 /\ \E n \in DOMAIN stdout :
                       /\ stdout[n].msg = "not found - skipping"
                       /\ stdout[n].arg = PDF_INFO[i].fname
                 /\ OutFile(PDF_INFO[i].key) \notin DOMAIN files
           /\ ci = Len(PDF_INFO) + 1

\* C8: a failure while a subject whose source exists is processed (the
\* document cannot be opened, a row raises, the artifact cannot be written)
\* ends that subject only: the driver goes on with the next catalog entry.
C8_FailureIsolatedToSubject ==
    [][(error = "" /\ error' \in {"PDFSyntaxError", "TypeError", "OSError"})
       => (dpc' = "loop" /\ ci' = ci + 1)]_vars

\* the index of a label in GRADES
GradeIndex(g) == CHOOSE k \in DOMAIN GRADES : GRADES[k] = g

\* C9: col_to_grade(x) is the label of the first breakpoint strictly greater
\* than x and the catch-all when there is none; a position equal to a
\* breakpoint is in the band to its right; every position has exactly one of
\* the 11 labels; the band does not decrease as x grows; 50 is "Grade PK".
C9_ColToGradeBands ==
    /\ \A n \in DOMAIN lookups :
          LET x == lookups[n].x
              g == lookups[n].grade
          IN  /\ Cardinality({k \in DOMAIN GRADES : GRADES[k] = g}) = 1
              /\ \A k \in DOMAIN BREAKS :
                    (g = GRADES[k]) <=>
                        (x < BREAKS[k] /\ \A j \in 1..(k - 1) : BREAKS[j] <= x)
              /\ (g = <<"H","S","I">>) <=> (x >= BREAKS[Len(BREAKS)])
              /\ \A k \in DOMAIN BREAKS : x = BREAKS[k] => g = GRADES[k + 1]
              /\ x = 50 => g = <<"G","r","a","d","e"," ","P","K">>
    /\ \A m, n \in DOMAIN lookups :
          lookups[m].x <= lookups[n].x
              => GradeIndex(lookups[m].grade) <= GradeIndex(lookups[n].grade)
    /\ Len(BREAKS) = 10 /\ Len(GRADES) = 11

\* C9 witness: a position on a breakpoint, then one on the last breakpoint.
C9_Witness ==
    /\ Len(lookups) = 2
    /\ lookups[1].x = BREAKS[1]
    /\ lookups[2].x = BREAKS[Len(BREAKS)]
    /\ lookups[1].grade = <<"G","r","a","d","e"," ","K">>
    /\ lookups[2].grade = <<"H","S","I">>

\* the subjects with embedded-code grade information, and the uncoded ones
EmbeddedOrUncoded(key) ==
    \/ key \in {<<"m","a","t","h","e","m","a","t","i","c","s">>,
                <<"e","l","a">>, <<"s","c","i","e","n","c","e">>}
    \/ StartsWith(key,
           <<"s","o","c","i","a","l","_","s","t","u","d","i","e","s">>)
    \/ IsEng(key)

\* C10: in a document of a subject with embedded-code grade information or of
\* an uncoded subject, no row is filed under the band of its code token's
\* left edge: every recognized code carries its embedded grade.
C10_PositionNeverDecides ==
    (CodedRowDone /\ EmbeddedOrUncoded(subject_key))
        => EmbeddedGrade(subject_key, code_word.text) # <<>>

====
